---------------------------- MODULE Spec2Model ----------------------------
(***************************************************************************)
(* State-machine model of the MacAC native library:                       *)
(*   - the ring buffer            (src/native/src/ringbuffer.cpp)          *)
(*   - its JNI read entry         (src/native/src/jni_bridge.cpp)          *)
(*   - the TSC clock              (src/native/src/timing.cpp)              *)
(*   - the combat scoring model   (src/native/src/combat.cpp, stats.cpp)   *)
(*                                                                         *)
(* Specifications:                                                         *)
(*   Spec          one thread calling the ring buffer API                  *)
(*   SpecConc      one writer pushing, one reader reading, every load and  *)
(*                 store a step of its own                                 *)
(*   SpecConcClear SpecConc plus the writer calling clear                  *)
(*   SpecTiming    one thread calling the clock API while time passes      *)
(*   SpecCombat    calls of macac_analyze_combat                           *)
(***************************************************************************)
EXTENDS Integers, Sequences, FiniteSets, TLC

(***************************************************************************)
(* Bounds of the model.                                                    *)
(***************************************************************************)
\* largest capacity passed to macac_ringbuffer_create
MaxCap == 3
\* pushed samples are drawn from 0..MaxVal (0 is a legitimate sample)
MaxVal == 2
\* pushes since the last create/clear (sequential) or in all (concurrent)
MaxPushes == 4

\* the same three for the step-by-step specifications, whose state space is
\* the product of the writer's and the reader's positions
ConcMaxCap == 2
ConcMaxVal == 1
ConcMaxPushes == 3

\* the clocks: one busy-wait window of the calibration loop lasts
\* WindowNanos or WindowNanos + WindowJitter nanoseconds of CLOCK_MONOTONIC
\* and WindowTicks ticks of the cycle counter; the same window is the unit
\* in which time passes between calls
WindowNanos == 20
WindowJitter == 2
WindowTicks == 40
\* at process start each clock reads 0 or its epoch: the two clocks count
\* from unrelated origins
MonoEpoch == 1000
TscEpoch == 3000
\* windows of time that pass between calls, in all
MaxWindows == 3

\* largest sample count handed to macac_analyze_combat, and the number of
\* calls made with one result struct
MaxCount == 10
MaxCalls == 1

Values == 0..MaxVal
ConcValues == 0..ConcMaxVal
\* ages asked of get: every valid age and some beyond every capacity
Ages == 0..(MaxCap + 2)
\* size_t is 64 bits wide in the build; TLC's integers are 32 bits wide, and
\* the only place the width shows is the cast of a negative jint, so the
\* model keeps 16 bits: still far above every capacity of the model.
SizeTMod == 2^16

\* std::nan(""): the NotAvailable sentinel. Pushed samples are never NaN.
NaN == -1

Min(a, b) == IF a < b THEN a ELSE b

\* A double that is not a whole number is kept in fixed point, as the
\* integer nearest below value * Scale.
Scale == 10^3

VARIABLES
    \* ---- macac_ringbuffer_t and the heap
    rb,         \* the owner's handle: "null" or "live"
    capacity,   \* rb->capacity
    data,       \* rb->data : [0..capacity-1 -> double]
    head,       \* rb->head
    size,       \* rb->size
    allocs,     \* live heap blocks (the struct, the data)
    \* ---- history variable and the last call of the sequential thread
    hist,       \* values whose cursor advance completed since create/clear
    op,         \* <<name, argument>> of the last call
    ret,        \* what the last call returned (0 for void and for nullptr,
                \* 1 for a buffer)
    since,      \* history variable: the call that last emptied the buffer,
                \* "create" or "clear" ("none" while there is no buffer)
    \* ---- the writer thread, inside push or clear
    w_pc,       \* the next line it executes, "idle" between calls
    w_value,    \* push's argument
    w_head,     \* push's current_head
    w_size,     \* push's current_size
    w_i,        \* the next slot memset fills
    w_hist,     \* history variable: the values hist held when the clear in
                \* progress reset the cursor, kept until it resets the size
    \* ---- the reader thread, inside size or get
    r_pc,       \* the next line it executes, "idle" between snapshots
    r_snap,     \* the size() it took once
    r_age,      \* get's argument
    r_size,     \* get's current_size
    r_head,     \* get's current_head
    r_ret,      \* what get returned
    r_expect,   \* history variable: the value that stood at r_age when the
                \* get in progress read the cursor (NaN if fewer values had
                \* been exposed); 0 between two gets
    r_stood,    \* history variable: the value that stood at r_age when the
                \* get in progress loaded the size, counting the pushes
                \* before a clear that was then in progress (NaN if there
                \* were too few); 0 between two gets
    \* ---- timing.cpp and the two hardware clocks
    has_rdtscp,         \* HAS_RDTSCP of the build
    tsc_nanos_per_tick, \* the calibration factor, times Scale
    tsc_calibrated,
    clk_mono,           \* what clock_gettime(CLOCK_MONOTONIC) reads, in ns
    clk_tsc,            \* what rdtscp reads, in ticks
    windows,            \* windows of time passed between calls
    measured,           \* history variable: calibration samples taken
    t_op,               \* <<name, argument>> of the last clock call
    t_ret,              \* what it returned
    nt_prev,            \* history variables: the results of the last two
    nt_last,            \* macac_nanotime calls, -1 for none
    \* ---- timing.cpp called from several threads at once, per thread
    k_pc,       \* where the thread stands in its call
    k_call,     \* the function it called
    k_calls,    \* calls it has made
    k_local,    \* its total_ratio / SAMPLES
    k_stored,   \* which of the two globals its calibration has written
    k_factor,   \* the factor its last call returned or converted with
    k_seen,     \* history variable: the factor it read after it read
                \* tsc_calibrated as true
    k_assigned, \* history variable: the values assigned to
                \* tsc_nanos_per_tick, in order
    \* ---- combat.cpp
    has_avx2,   \* HAS_AVX2 of the build
    result,     \* the caller's macac_combat_analysis_t
    c_call,     \* [count, result_null] of the last macac_analyze_combat call
    c_calls,    \* calls made so far
    c_reads,    \* history variable: the input arrays that call read
    c_in,       \* history variable: the five arrays handed to that call
    c_scores,   \* that call's locals aimbot_score, reach_score and
                \* autoclicker_score when it returned
    \* ---- stats.cpp: one caller of macac_median, macac_mad and
    \* macac_simd_variance
    s_data,     \* the caller's array
    s_count,    \* the count it passes
    s_mean,     \* the mean it passed to macac_simd_variance
    s_op,       \* the name of the last call
    s_ret,      \* what it returned
    s_copy,     \* history variable: the heap array the last macac_median
                \* selected in, as it stood at delete[]
    \* ---- stats.cpp: one call of quickselect, iteration by iteration
    q_pc,       \* "none", "loop" (at the test of the while) or "returned"
    q_data,     \* the array
    q_left,
    q_right,
    q_k,
    q_ret,      \* what it returned
    q_in,       \* history variable: the left and right of the call
    q_kept,     \* history variable: the side the last iteration kept
    q_touched,  \* history variable: the indices read or written so far
    \* ---- network.cpp: macac_connection_t and its socket
    conn,           \* the owner's handle: "null" or "live"
    connected,      \* conn->connected
    sockfd,         \* conn->sockfd
    send_buffer_len,
    n_op,           \* <<name, argument>> of the last call
    n_ret,          \* what it returned
    n_sends,        \* history variable: send() calls that call made
    n_failed,       \* history variable: a send on this connection failed
                    \* with an error other than would-block
    n_outcome,      \* history variable: what the send() of the last call
                    \* did, "none" if the call made none
    n_copy          \* history variable: <<offset, length>> of the memcpy
                    \* into send_buffer by the last call, <<0, 0>> if none

rbVars == <<rb, capacity, data, head, size, allocs>>
seqVars == <<hist, op, ret, since>>
wVars == <<w_pc, w_value, w_head, w_size, w_i, w_hist>>
rVars == <<r_pc, r_snap, r_age, r_size, r_head, r_ret, r_expect,
           r_stood>>
calVars == <<tsc_nanos_per_tick, tsc_calibrated>>
clkVars == <<clk_mono, clk_tsc, measured>>
timeVars == <<has_rdtscp, calVars, clkVars, windows, t_op, t_ret,
              nt_prev, nt_last>>
raceVars == <<k_pc, k_call, k_calls, k_local, k_stored, k_factor, k_seen,
              k_assigned>>
combatVars == <<has_avx2, result, c_call, c_calls, c_reads, c_in, c_scores>>
statVars == <<s_data, s_count, s_mean, s_op, s_ret, s_copy>>
selVars == <<q_pc, q_data, q_left, q_right, q_k, q_ret, q_in, q_kept,
             q_touched>>
netVars == <<conn, connected, sockfd, send_buffer_len, n_op, n_ret, n_sends,
             n_failed, n_outcome, n_copy>>
vars == <<rbVars, seqVars, wVars, rVars, timeVars, raceVars, combatVars,
          statVars, selVars, netVars>>
\* what a call of the sequential thread leaves alone
seqFrame == <<wVars, rVars, timeVars, raceVars, combatVars, statVars,
              selVars, netVars>>
\* what a step of the writer or of the reader leaves alone
concFrame == <<op, ret, since, timeVars, raceVars, combatVars, statVars,
               selVars, netVars>>
\* what a clock call leaves alone
timeFrame == <<rbVars, seqVars, wVars, rVars, raceVars, combatVars,
               statVars, selVars, netVars>>
\* what a scoring call leaves alone
combatFrame == <<rbVars, seqVars, wVars, rVars, timeVars, raceVars,
                 statVars, selVars, netVars>>
\* what a call into stats.cpp leaves alone
statFrame == <<rbVars, seqVars, wVars, rVars, timeVars, raceVars,
               combatVars, selVars, netVars>>
\* what an iteration of quickselect leaves alone
selFrame == <<rbVars, seqVars, wVars, rVars, timeVars, raceVars,
              combatVars, statVars, netVars>>
\* what a call into network.cpp leaves alone
netFrame == <<rbVars, seqVars, wVars, rVars, timeVars, raceVars,
              combatVars, statVars, selVars>>
\* what a step of a thread inside timing.cpp leaves alone
raceFrame == <<rbVars, seqVars, wVars, rVars, combatVars, statVars,
               selVars, netVars>>

(***************************************************************************)
(* ringbuffer.cpp                                                          *)
(***************************************************************************)

\* line 70: size_t new_head = (current_head + 1) % rb->capacity
NewHeadNoWrap(current_head, cap) == current_head + 1
NewHead(current_head, cap) == (current_head + 1) % cap

\* lines 75-76: the size stored by push, if any
NewSize(current_size, cap) ==
    IF current_size < cap THEN current_size + 1 ELSE current_size

\* line 86: if (age >= current_size) return nan
OutOfRangeOffByOne(age, current_size) == age + 1 >= current_size
OutOfRange(age, current_size) == age >= current_size

\* line 93: index = (current_head + capacity - 1 - age) % capacity
GetIndexNoMinusOne(current_head, cap, age) == (current_head + cap - age) % cap
GetIndex(current_head, cap, age) == (current_head + cap - 1 - age) % cap

\* line 20: if (capacity == 0) return nullptr
AcceptsAnyCapacity(cap) == FALSE
RejectsCapacity(cap) == cap = 0

\* lines 19-47; allocOk is whether new and aligned_alloc both succeed
macac_ringbuffer_create(cap, allocOk) ==
    /\ rb = "null"
    /\ IF RejectsCapacity(cap) \/ ~allocOk
       THEN /\ UNCHANGED rbVars
            /\ ret' = 0
       ELSE /\ rb' = "live"
            /\ capacity' = cap
            /\ data' = [i \in 0..(cap - 1) |-> 0]
            /\ head' = 0
            /\ size' = 0
            /\ allocs' = allocs + 2
            /\ ret' = 1
    /\ hist' = <<>>
    /\ since' = IF rb' = "live" THEN "create" ELSE "none"
    /\ op' = <<"create", cap>>
    /\ UNCHANGED seqFrame

\* lines 49-56
macac_ringbuffer_destroy ==
    /\ IF rb = "live"
       THEN /\ rb' = "null"
            /\ capacity' = 0
            /\ data' = <<>>
            /\ head' = 0
            /\ size' = 0
            /\ allocs' = allocs - 2
       ELSE UNCHANGED rbVars
    /\ hist' = <<>>
    /\ since' = "none"
    /\ op' = <<"destroy", 0>>
    /\ ret' = 0
    /\ UNCHANGED seqFrame

\* lines 58-78, called with no other thread in the buffer
macac_ringbuffer_push(value) ==
    /\ Len(hist) < MaxPushes
    /\ IF rb = "null"
       THEN UNCHANGED <<rbVars, hist>>
       ELSE /\ data' = [data EXCEPT ![head] = value]
            /\ head' = NewHead(head, capacity)
            /\ size' = NewSize(size, capacity)
            /\ hist' = Append(hist, value)
            /\ UNCHANGED <<rb, capacity, allocs>>
    /\ op' = <<"push", value>>
    /\ ret' = 0
    /\ UNCHANGED <<since, seqFrame>>

\* lines 80-96 as a function of the buffer's state
GetResult(age) ==
    IF rb = "null"
    THEN NaN
    ELSE IF OutOfRange(age, size)
         THEN NaN
         ELSE data[GetIndex(head, capacity, age)]

macac_ringbuffer_get(age) ==
    /\ ret' = GetResult(age)
    /\ op' = <<"get", age>>
    /\ UNCHANGED <<rbVars, hist, since, seqFrame>>

\* line 103: rb->size.store(0, ...)
SizeKeptByClear(current_size) == current_size
SizeAfterClear(current_size) == 0

\* lines 98-109
macac_ringbuffer_clear ==
    /\ IF rb = "null"
       THEN UNCHANGED rbVars
       ELSE /\ head' = 0
            /\ size' = SizeAfterClear(size)
            /\ data' = [i \in 0..(capacity - 1) |-> 0]
            /\ UNCHANGED <<rb, capacity, allocs>>
    /\ hist' = <<>>
    /\ since' = IF rb = "null" THEN since ELSE "clear"
    /\ op' = <<"clear", 0>>
    /\ ret' = 0
    /\ UNCHANGED seqFrame

\* lines 111-116
SizeResult == IF rb = "null" THEN 0 ELSE size

macac_ringbuffer_size ==
    /\ ret' = SizeResult
    /\ op' = <<"size", 0>>
    /\ UNCHANGED <<rbVars, hist, since, seqFrame>>

(***************************************************************************)
(* jni_bridge.cpp                                                          *)
(***************************************************************************)

\* line 82: (size_t)age of a jint
SizeTOfJint(age) == age % SizeTMod

\* lines 78-85: what ringBufferGet returns for the owner's handle
RingBufferGetResult(age) ==
    IF rb # "null" THEN GetResult(SizeTOfJint(age)) ELSE 0

ringBufferGet(age) ==
    /\ ret' = RingBufferGetResult(age)
    /\ op' = <<"ringBufferGet", age>>
    /\ UNCHANGED <<rbVars, hist, since, seqFrame>>

(***************************************************************************)
(* Spec: one thread, whole calls.                                          *)
(***************************************************************************)
ThreadsIdle ==
    /\ w_pc = "idle"
    /\ w_value = 0
    /\ w_head = 0
    /\ w_size = 0
    /\ w_i = 0
    /\ w_hist = <<>>
    /\ r_pc = "idle"
    /\ r_snap = 0
    /\ r_age = 0
    /\ r_size = 0
    /\ r_head = 0
    /\ r_ret = 0
    /\ r_expect = 0
    /\ r_stood = 0

\* the threads that call timing.cpp at once
Threads == {1, 2}

\* no thread is inside timing.cpp
NoCallers ==
    /\ k_pc = [t \in Threads |-> "idle"]
    /\ k_call = [t \in Threads |-> "none"]
    /\ k_calls = [t \in Threads |-> 0]
    /\ k_local = [t \in Threads |-> 0]
    /\ k_stored = [t \in Threads |-> {}]
    /\ k_factor = [t \in Threads |-> -1]
    /\ k_seen = [t \in Threads |-> -1]
    /\ k_assigned = <<>>

\* timing.cpp lines 16-18 at process start; the ring buffer specifications
\* never call the clock
ClockUntouched ==
    /\ NoCallers
    /\ has_rdtscp = TRUE
    /\ tsc_nanos_per_tick = 0
    /\ tsc_calibrated = FALSE
    /\ clk_mono = 0
    /\ clk_tsc = 0
    /\ windows = 0
    /\ measured = 0
    /\ t_op = <<"none", 0>>
    /\ t_ret = 0
    /\ nt_prev = -1
    /\ nt_last = -1

\* the fields of macac_combat_analysis_t (macac_native.h lines 212-223)
ResultFields == {"aimbot_confidence", "reach_confidence",
                 "autoclicker_confidence", "combined_confidence",
                 "avg_aim_error", "aim_variance", "avg_snap_angle",
                 "avg_reach", "hit_rate", "avg_attack_interval"}

\* the five input streams of macac_analyze_combat (combat.cpp lines 295-297)
InputStreams == {"aim_errors", "snap_angles", "reaches", "attack_intervals",
                 "hits"}
\* the three accumulators (combat.cpp lines 321, 337, 348)
ScoreNames == {"aimbot", "reach", "autoclicker"}
\* before any call: no arrays were handed over, no accumulator was computed
NoArrays == [s \in InputStreams |-> <<>>]
NoScores == [s \in ScoreNames |-> 0]

\* a caller's result struct before any call wrote it: no field is 0
NoAnalysisYet ==
    /\ has_avx2 = FALSE
    /\ result = [f \in ResultFields |-> 1]
    /\ c_call = [count |-> 0, result_null |-> TRUE]
    /\ c_calls = 0
    /\ c_reads = {}
    /\ c_in = NoArrays
    /\ c_scores = NoScores

\* stats.cpp keeps no state between calls; before the first call
NoSelection ==
    /\ q_pc = "none"
    /\ q_data = <<>>
    /\ q_left = 0
    /\ q_right = 0
    /\ q_k = 0
    /\ q_ret = 0
    /\ q_in = <<0, 0>>
    /\ q_kept = "none"
    /\ q_touched = {}

NoStatCall ==
    /\ NoSelection
    /\ s_data = <<>>
    /\ s_count = 0
    /\ s_mean = 0
    /\ s_op = "none"
    /\ s_ret = 0
    /\ s_copy = <<>>

\* no connection was made
NoConnection ==
    /\ conn = "null"
    /\ connected = FALSE
    /\ sockfd = -1
    /\ send_buffer_len = 0
    /\ n_op = <<"none", 0>>
    /\ n_ret = 0
    /\ n_sends = 0
    /\ n_failed = FALSE
    /\ n_outcome = "none"
    /\ n_copy = <<0, 0>>

\* no ring buffer exists
NoBuffer ==
    /\ rb = "null"
    /\ capacity = 0
    /\ data = <<>>
    /\ head = 0
    /\ size = 0
    /\ allocs = 0
    /\ hist = <<>>
    /\ op = <<"none", 0>>
    /\ ret = 0
    /\ since = "none"

Init ==
    /\ NoBuffer
    /\ ThreadsIdle
    /\ ClockUntouched
    /\ NoAnalysisYet
    /\ NoStatCall
    /\ NoConnection

Next ==
    \/ \E cap \in 0..MaxCap, allocOk \in BOOLEAN :
           macac_ringbuffer_create(cap, allocOk)
    \/ macac_ringbuffer_destroy
    \/ \E value \in Values : macac_ringbuffer_push(value)
    \/ \E age \in Ages : macac_ringbuffer_get(age)
    \/ macac_ringbuffer_clear
    \/ macac_ringbuffer_size
    \/ \E age \in Ages \cup {-1} : ringBufferGet(age)

Spec == Init /\ [][Next]_vars


(***************************************************************************)
(* ringbuffer.cpp, one load or store per step.                             *)
(*                                                                         *)
(* The writer thread is the only caller of push and clear, the reader      *)
(* thread calls size and get.  Readers write nothing shared, so one reader *)
(* sees everything any number of readers can see.  rb->data is a plain     *)
(* double array: a read that races with push's store is a data race; the   *)
(* builds of this code store and load an aligned double in one access, so  *)
(* the racing read returns the slot's old or its new value, which is what  *)
(* the interleaving of the two steps yields.                               *)
(***************************************************************************)

\* lines 58-64: the call, the null check and the load of head
push_load_head(value) ==
    /\ w_pc = "idle"
    /\ Len(hist) < ConcMaxPushes
    /\ w_value' = value
    /\ w_head' = head
    /\ w_pc' = "push_store_data"
    /\ UNCHANGED <<rbVars, hist, w_size, w_i, w_hist, rVars, concFrame>>

\* line 67: rb->data[current_head] = value
push_store_data ==
    /\ w_pc = "push_store_data"
    /\ data' = [data EXCEPT ![w_head] = w_value]
    /\ w_pc' = "push_store_head"
    /\ UNCHANGED <<rb, capacity, head, size, allocs, hist>>
    /\ UNCHANGED <<w_value, w_head, w_size, w_i, w_hist, rVars, concFrame>>

\* lines 70-71: rb->head.store(new_head, release)
push_store_head ==
    /\ w_pc = "push_store_head"
    /\ head' = NewHead(w_head, capacity)
    /\ hist' = Append(hist, w_value)
    /\ w_pc' = "push_load_size"
    /\ UNCHANGED <<rb, capacity, data, size, allocs>>
    /\ UNCHANGED <<w_value, w_head, w_size, w_i, w_hist, rVars, concFrame>>

\* line 74: current_size = rb->size.load(relaxed)
push_load_size ==
    /\ w_pc = "push_load_size"
    /\ w_size' = size
    /\ w_pc' = "push_store_size"
    /\ UNCHANGED <<rbVars, hist, w_value, w_head, w_i, w_hist, rVars, concFrame>>

\* lines 75-78: rb->size.store(current_size + 1, release) if not full
push_store_size ==
    /\ w_pc = "push_store_size"
    /\ size' = NewSize(w_size, capacity)
    /\ w_pc' = "idle"
    /\ UNCHANGED <<rb, capacity, data, head, allocs, hist>>
    /\ UNCHANGED <<w_value, w_head, w_size, w_i, w_hist, rVars, concFrame>>

\* lines 98-103: the call, the null check and rb->head.store(0, release)
clear_store_head ==
    /\ w_pc = "idle"
    /\ head' = 0
    /\ hist' = <<>>
    /\ w_hist' = hist
    /\ w_pc' = "clear_store_size"
    /\ UNCHANGED <<rb, capacity, data, size, allocs>>
    /\ UNCHANGED <<w_value, w_head, w_size, w_i, rVars, concFrame>>

\* line 104: rb->size.store(0, release)
clear_store_size ==
    /\ w_pc = "clear_store_size"
    /\ size' = 0
    /\ w_i' = 0
    /\ w_hist' = <<>>
    /\ w_pc' = "clear_memset"
    /\ UNCHANGED <<rb, capacity, data, head, allocs, hist>>
    /\ UNCHANGED <<w_value, w_head, w_size, rVars, concFrame>>

\* lines 106-108: memset zeroes the slots one after the other
clear_memset ==
    /\ w_pc = "clear_memset"
    /\ data' = [data EXCEPT ![w_i] = 0]
    /\ w_i' = w_i + 1
    /\ w_pc' = IF w_i + 1 < capacity THEN "clear_memset" ELSE "idle"
    /\ UNCHANGED <<rb, capacity, head, size, allocs, hist>>
    /\ UNCHANGED <<w_value, w_head, w_size, w_hist, rVars, concFrame>>

\* lines 111-116: the reader takes size() once, then reads ages 0..size-1
size_snapshot ==
    /\ r_pc = "idle"
    /\ r_snap' = SizeResult
    /\ r_age' = 0
    /\ r_pc' = IF SizeResult > 0 THEN "get_load_size" ELSE "idle"
    /\ UNCHANGED <<rbVars, hist, wVars, concFrame>>
    /\ UNCHANGED <<r_size, r_head, r_ret, r_expect, r_stood>>

\* the value that stands at `age` for a get that starts now: the age-th
\* most recent push, where a clear that has reset the cursor but not yet
\* the size has not yet taken the values away from a reader
StoodAt(age) ==
    LET standing == IF w_pc = "clear_store_size" THEN w_hist ELSE hist
    IN  IF age < Len(standing) THEN standing[Len(standing) - age] ELSE NaN

\* lines 80-88: get's null check, its load of size and its range check
get_load_size ==
    /\ r_pc = "get_load_size"
    /\ r_size' = size
    /\ IF OutOfRange(r_age, size)
       THEN /\ r_ret' = NaN
            /\ r_expect' = NaN
            /\ r_stood' = NaN
            /\ r_pc' = "get_returned"
       ELSE /\ r_pc' = "get_load_head"
            /\ r_stood' = StoodAt(r_age)
            /\ UNCHANGED <<r_ret, r_expect>>
    /\ UNCHANGED <<rbVars, hist, wVars, concFrame>>
    /\ UNCHANGED <<r_snap, r_age, r_head>>

\* line 90: current_head = rb->head.load(acquire)
get_load_head ==
    /\ r_pc = "get_load_head"
    /\ r_head' = head
    /\ r_expect' = IF r_age < Len(hist) THEN hist[Len(hist) - r_age] ELSE NaN
    /\ r_pc' = "get_read_data"
    /\ UNCHANGED <<rbVars, hist, wVars, concFrame>>
    /\ UNCHANGED <<r_snap, r_age, r_size, r_ret, r_stood>>

\* lines 93-95: return rb->data[index]
get_read_data ==
    /\ r_pc = "get_read_data"
    /\ r_ret' = data[GetIndex(r_head, capacity, r_age)]
    /\ r_pc' = "get_returned"
    /\ UNCHANGED <<rbVars, hist, wVars, concFrame>>
    /\ UNCHANGED <<r_snap, r_age, r_size, r_head, r_expect, r_stood>>

\* the reader goes on to the next age of its snapshot, or is done with it;
\* the locals of the get that returned are gone
get_next_age ==
    /\ r_pc = "get_returned"
    /\ IF r_age + 1 < r_snap
       THEN /\ r_age' = r_age + 1
            /\ r_pc' = "get_load_size"
       ELSE /\ r_pc' = "idle"
            /\ UNCHANGED r_age
    /\ r_size' = 0
    /\ r_head' = 0
    /\ r_ret' = 0
    /\ r_expect' = 0
    /\ r_stood' = 0
    /\ UNCHANGED <<rbVars, hist, wVars, concFrame>>
    /\ UNCHANGED r_snap

\* a buffer just made by macac_ringbuffer_create(cap), both threads idle
InitConc ==
    /\ \E cap \in 1..ConcMaxCap :
        /\ capacity = cap
        /\ data = [i \in 0..(cap - 1) |-> 0]
    /\ rb = "live"
    /\ head = 0
    /\ size = 0
    /\ allocs = 2
    /\ hist = <<>>
    /\ op = <<"create", 0>>
    /\ ret = 1
    /\ since = "create"
    /\ ThreadsIdle
    /\ ClockUntouched
    /\ NoAnalysisYet
    /\ NoStatCall
    /\ NoConnection

WriterPush ==
    \/ \E value \in ConcValues : push_load_head(value)
    \/ push_store_data
    \/ push_store_head
    \/ push_load_size
    \/ push_store_size

WriterClear ==
    \/ clear_store_head
    \/ clear_store_size
    \/ clear_memset

Reader ==
    \/ size_snapshot
    \/ get_load_size
    \/ get_load_head
    \/ get_read_data
    \/ get_next_age

NextConc == WriterPush \/ Reader

SpecConc == InitConc /\ [][NextConc]_vars

NextConcClear == WriterPush \/ WriterClear \/ Reader

SpecConcClear == InitConc /\ [][NextConcClear]_vars

\* clear alone races with the reader: the writer pushes only while the
\* reader is between snapshots, and the reader starts no snapshot inside a
\* push, so that every push is complete before a get that can see it
InsidePush ==
    w_pc \in {"push_store_data", "push_store_head", "push_load_size",
              "push_store_size"}

PushApart == r_pc = "idle" /\ WriterPush

ReaderBesideClear == ~InsidePush /\ Reader

NextClearRace == PushApart \/ WriterClear \/ ReaderBesideClear

SpecClearRace == InitConc /\ [][NextClearRace]_vars

(***************************************************************************)
(* timing.cpp                                                              *)
(*                                                                         *)
(* The hardware is two counters that only move forward: CLOCK_MONOTONIC    *)
(* (clk_mono) and the time stamp counter (clk_tsc).  Nothing relates their *)
(* origins.  Time passes in windows, between calls (TimePasses) and inside *)
(* the busy-wait of the calibration loop.                                  *)
(***************************************************************************)

\* line 121
SAMPLES == 10

\* what one window adds to <<clk_mono, clk_tsc>>
FastWindow == <<WindowNanos, WindowTicks>>
SlowWindow == <<WindowNanos + WindowJitter, WindowTicks>>
Elapsed == {FastWindow, SlowWindow}

\* lines 101-110: rdtscp, or steady_clock without it
macac_rdtscp == IF has_rdtscp THEN clk_tsc ELSE clk_mono

\* lines 147-153: one sample's contribution to total_ratio
SampleRatio(w) == IF w[2] > 0 THEN (w[1] * Scale) \div w[2] ELSE 0

\* line 152: total_ratio after the first n samples
RECURSIVE TotalRatio(_, _)
TotalRatio(w, n) ==
    IF n = 0 THEN 0 ELSE TotalRatio(w, n - 1) + SampleRatio(w[n])

\* what the first n windows add to clock k (1: clk_mono, 2: clk_tsc)
RECURSIVE WindowsSum(_, _, _)
WindowsSum(w, n, k) ==
    IF n = 0 THEN 0 ELSE WindowsSum(w, n - 1, k) + w[n][k]

\* line 113: if (tsc_calibrated) return tsc_nanos_per_tick
RecalibratesEveryCall == FALSE
AlreadyCalibrated == tsc_calibrated

\* lines 112-164 without the return value; w[i] is what the i-th busy-wait
\* window adds to the clocks
Calibrate(w) ==
    IF AlreadyCalibrated
    THEN UNCHANGED <<calVars, clkVars>>
    ELSE /\ tsc_calibrated' = TRUE
         /\ IF has_rdtscp
            THEN /\ tsc_nanos_per_tick' =
                        TotalRatio(w, SAMPLES) \div SAMPLES
                 /\ clk_mono' = clk_mono + WindowsSum(w, SAMPLES, 1)
                 /\ clk_tsc' = clk_tsc + WindowsSum(w, SAMPLES, 2)
                 /\ measured' = measured + SAMPLES
            ELSE /\ tsc_nanos_per_tick' = Scale
                 /\ UNCHANGED clkVars

\* the windows a call may see: none are looked at once calibrated or
\* without the counter; otherwise any number of the SAMPLES windows is slow
\* (all that the loop computes are sums over the windows, so which of them
\* are the slow ones makes no difference)
WindowChoices ==
    IF tsc_calibrated \/ ~has_rdtscp
    THEN {[i \in 1..SAMPLES |-> <<0, 0>>]}
    ELSE {[i \in 1..SAMPLES |-> IF i <= slow THEN SlowWindow ELSE FastWindow] :
              slow \in 0..SAMPLES}

macac_calibrate_tsc ==
    /\ \E w \in WindowChoices : Calibrate(w)
    /\ t_ret' = tsc_nanos_per_tick'
    /\ t_op' = <<"calibrate", 0>>
    /\ UNCHANGED <<has_rdtscp, windows, nt_prev, nt_last, timeFrame>>

\* line 170: the factor the conversion multiplies by, given the global's
\* value before and after the calibration call of lines 167-169
FactorReadBeforeCalibration(before, after) == before
ConversionFactor(before, after) == after

\* line 170: (int64_t)(tsc_value * tsc_nanos_per_tick)
TicksToNanos(tsc_value, factor) == (tsc_value * factor) \div Scale

\* lines 166-171
macac_tsc_to_nanos(tsc_value) ==
    /\ \E w \in WindowChoices : Calibrate(w)
    /\ t_ret' = TicksToNanos(tsc_value,
                    ConversionFactor(tsc_nanos_per_tick, tsc_nanos_per_tick'))
    /\ t_op' = <<"tsc_to_nanos", tsc_value>>
    /\ UNCHANGED <<has_rdtscp, windows, nt_prev, nt_last, timeFrame>>

\* lines 173-185
NanotimeResult ==
    IF has_rdtscp /\ tsc_calibrated
    THEN TicksToNanos(macac_rdtscp, tsc_nanos_per_tick)
    ELSE clk_mono

macac_nanotime ==
    /\ t_ret' = NanotimeResult
    /\ t_op' = <<"nanotime", 0>>
    /\ nt_prev' = nt_last
    /\ nt_last' = NanotimeResult
    /\ UNCHANGED <<has_rdtscp, calVars, clkVars, windows, timeFrame>>

\* one window of time passes between two calls
TimePasses ==
    /\ windows < MaxWindows
    /\ windows' = windows + 1
    /\ \E w \in Elapsed :
        /\ clk_mono' = clk_mono + w[1]
        /\ clk_tsc' = clk_tsc + w[2]
    /\ t_op' = <<"time passes", 0>>
    /\ UNCHANGED <<has_rdtscp, calVars, measured, t_ret, nt_prev, nt_last,
                   timeFrame>>

\* tsc values handed to macac_tsc_to_nanos
TscArguments == {0, WindowTicks, TscEpoch}

InitTiming ==
    /\ NoBuffer
    /\ ThreadsIdle
    /\ has_rdtscp \in BOOLEAN
    /\ tsc_nanos_per_tick = 0
    /\ tsc_calibrated = FALSE
    /\ clk_mono \in {0, MonoEpoch}
    /\ clk_tsc \in {0, TscEpoch}
    /\ windows = 0
    /\ measured = 0
    /\ t_op = <<"none", 0>>
    /\ t_ret = 0
    /\ nt_prev = -1
    /\ nt_last = -1
    /\ NoCallers
    /\ NoAnalysisYet
    /\ NoStatCall
    /\ NoConnection

NextTiming ==
    \/ macac_calibrate_tsc
    \/ \E tsc_value \in TscArguments : macac_tsc_to_nanos(tsc_value)
    \/ macac_nanotime
    \/ TimePasses

SpecTiming == InitTiming /\ [][NextTiming]_vars

(***************************************************************************)
(* timing.cpp called by several threads at once.  tsc_nanos_per_tick and   *)
(* tsc_calibrated (lines 17-18) are plain statics and no function takes a  *)
(* lock, so a call is a sequence of steps with one load or store of a      *)
(* static each, and the steps of the threads interleave.                   *)
(***************************************************************************)

\* calls each thread makes
MaxThreadCalls == 1

\* the entry points and the first step of each
EntryPoints ==
    [calibrate |-> "cal_check", tsc_to_nanos |-> "ttn_check", nanotime |-> "nt_check"]

\* the busy-wait windows a calibration loop may see (lines 123-154)
SampleWindows ==
    {[i \in 1..SAMPLES |-> IF i <= slow THEN SlowWindow ELSE FastWindow] :
         slow \in 0..SAMPLES}

\* what a step touches of the per-thread state
StepTo(t, pc) == k_pc' = [k_pc EXCEPT ![t] = pc]

\* a thread enters one of the three functions
thread_call(t, f) ==
    /\ k_pc[t] = "idle"
    /\ k_calls[t] < MaxThreadCalls
    /\ k_calls' = [k_calls EXCEPT ![t] = @ + 1]
    /\ k_call' = [k_call EXCEPT ![t] = f]
    /\ k_stored' = [k_stored EXCEPT ![t] = {}]
    /\ StepTo(t, EntryPoints[f])
    /\ UNCHANGED <<k_local, k_factor, k_seen, k_assigned, timeVars, raceFrame>>

\* where macac_calibrate_tsc returns to: its caller is the thread itself or
\* line 168 of macac_tsc_to_nanos
AfterCalibrate(t, value) ==
    IF k_call[t] = "calibrate"
    THEN /\ StepTo(t, "idle")
         /\ k_factor' = [k_factor EXCEPT ![t] = value]
         /\ t_op' = <<"calibrate", t>>
         /\ t_ret' = value
    ELSE /\ StepTo(t, "ttn_convert")
         /\ UNCHANGED <<k_factor, t_op, t_ret>>

\* line 113: if (tsc_calibrated); without the counter lines 158-159 need no
\* measurement
cal_check(t) ==
    /\ k_pc[t] = "cal_check"
    /\ IF tsc_calibrated
       THEN StepTo(t, "cal_return_early") /\ UNCHANGED k_local
       ELSE IF has_rdtscp
            THEN StepTo(t, "cal_measure") /\ UNCHANGED k_local
            ELSE /\ StepTo(t, "cal_stores")
                 /\ k_local' = [k_local EXCEPT ![t] = Scale]
    /\ UNCHANGED <<k_call, k_calls, k_stored, k_factor, k_seen, k_assigned,
                   timeVars, raceFrame>>

\* line 114: return tsc_nanos_per_tick
cal_return_early(t) ==
    /\ k_pc[t] = "cal_return_early"
    /\ k_seen' = [k_seen EXCEPT ![t] = tsc_nanos_per_tick]
    /\ AfterCalibrate(t, tsc_nanos_per_tick)
    /\ UNCHANGED <<k_call, k_calls, k_local, k_stored, k_assigned,
                   has_rdtscp, calVars, clkVars, windows, nt_prev, nt_last,
                   raceFrame>>

\* lines 121-156: the sampling loop, up to the value to be stored
cal_measure(t) ==
    /\ k_pc[t] = "cal_measure"
    /\ \E w \in SampleWindows :
        /\ k_local' = [k_local EXCEPT ![t] = TotalRatio(w, SAMPLES) \div SAMPLES]
        /\ clk_mono' = clk_mono + WindowsSum(w, SAMPLES, 1)
        /\ clk_tsc' = clk_tsc + WindowsSum(w, SAMPLES, 2)
    /\ measured' = measured + SAMPLES
    /\ StepTo(t, "cal_stores")
    /\ UNCHANGED <<k_call, k_calls, k_stored, k_factor, k_seen, k_assigned,
                   has_rdtscp, calVars, windows, t_op, t_ret, nt_prev,
                   nt_last, raceFrame>>

\* lines 156-162 store to two plain statics; nothing orders the two stores
\* for another thread, so they become visible in either order
StoresDone(t, stored) ==
    /\ k_stored' = [k_stored EXCEPT ![t] = stored]
    /\ StepTo(t, IF stored = {"factor", "flag"} THEN "cal_return" ELSE "cal_stores")

\* line 156 (line 159 without the counter)
cal_store_factor(t) ==
    /\ k_pc[t] = "cal_stores"
    /\ "factor" \notin k_stored[t]
    /\ tsc_nanos_per_tick' = k_local[t]
    /\ k_assigned' = Append(k_assigned, k_local[t])
    /\ StoresDone(t, k_stored[t] \cup {"factor"})
    /\ UNCHANGED <<k_call, k_calls, k_local, k_factor, k_seen, has_rdtscp,
                   tsc_calibrated, clkVars, windows, t_op, t_ret, nt_prev,
                   nt_last, raceFrame>>

\* line 162
cal_store_flag(t) ==
    /\ k_pc[t] = "cal_stores"
    /\ "flag" \notin k_stored[t]
    /\ tsc_calibrated' = TRUE
    /\ StoresDone(t, k_stored[t] \cup {"flag"})
    /\ UNCHANGED <<k_call, k_calls, k_local, k_factor, k_seen, k_assigned,
                   has_rdtscp, tsc_nanos_per_tick, clkVars, windows, t_op,
                   t_ret, nt_prev, nt_last, raceFrame>>

\* line 163: return tsc_nanos_per_tick, which the build may load again or
\* take from the value it has just stored
cal_return(t) ==
    /\ k_pc[t] = "cal_return"
    /\ \E value \in {tsc_nanos_per_tick, k_local[t]} : AfterCalibrate(t, value)
    /\ UNCHANGED <<k_call, k_calls, k_local, k_stored, k_seen, k_assigned,
                   has_rdtscp, calVars, clkVars, windows, nt_prev, nt_last,
                   raceFrame>>

\* line 167: if (!tsc_calibrated) macac_calibrate_tsc()
ttn_check(t) ==
    /\ k_pc[t] = "ttn_check"
    /\ StepTo(t, IF tsc_calibrated THEN "ttn_convert" ELSE "cal_check")
    /\ UNCHANGED <<k_call, k_calls, k_local, k_stored, k_factor, k_seen,
                   k_assigned, timeVars, raceFrame>>

\* the tsc_value of the conversion: the caller's, or line 177's
ConversionArguments(t) ==
    IF k_call[t] = "nanotime" THEN {macac_rdtscp} ELSE TscArguments

\* line 170
ttn_convert(t) ==
    /\ k_pc[t] = "ttn_convert"
    /\ k_seen' = [k_seen EXCEPT ![t] = tsc_nanos_per_tick]
    /\ k_factor' = [k_factor EXCEPT ![t] = tsc_nanos_per_tick]
    /\ \E tsc_value \in ConversionArguments(t) :
        /\ t_op' = <<k_call[t], t>>
        /\ t_ret' = TicksToNanos(tsc_value, tsc_nanos_per_tick)
    /\ StepTo(t, "idle")
    /\ UNCHANGED <<k_call, k_calls, k_local, k_stored, k_assigned,
                   has_rdtscp, calVars, clkVars, windows, nt_prev, nt_last,
                   raceFrame>>

\* lines 174-184: the test of line 176, and the fallback when it fails
nt_check(t) ==
    /\ k_pc[t] = "nt_check"
    /\ IF has_rdtscp /\ tsc_calibrated
       THEN StepTo(t, "ttn_check") /\ UNCHANGED <<t_op, t_ret>>
       ELSE /\ StepTo(t, "idle")
            /\ t_op' = <<"nanotime", t>>
            /\ t_ret' = clk_mono
    /\ UNCHANGED <<k_call, k_calls, k_local, k_stored, k_factor, k_seen,
                   k_assigned, has_rdtscp, calVars, clkVars, windows,
                   nt_prev, nt_last, raceFrame>>

ThreadStep(t) ==
    \/ \E f \in DOMAIN EntryPoints : thread_call(t, f)
    \/ cal_check(t)
    \/ cal_return_early(t)
    \/ cal_measure(t)
    \/ cal_store_factor(t)
    \/ cal_store_flag(t)
    \/ cal_return(t)
    \/ ttn_check(t)
    \/ ttn_convert(t)
    \/ nt_check(t)

NextCalRace == \E t \in Threads : ThreadStep(t)

InitCalRace ==
    /\ NoBuffer
    /\ ThreadsIdle
    /\ has_rdtscp \in BOOLEAN
    /\ tsc_nanos_per_tick = 0
    /\ tsc_calibrated = FALSE
    /\ clk_mono = MonoEpoch
    /\ clk_tsc = TscEpoch
    /\ windows = 0
    /\ measured = 0
    /\ t_op = <<"none", 0>>
    /\ t_ret = 0
    /\ nt_prev = -1
    /\ nt_last = -1
    /\ NoCallers
    /\ NoAnalysisYet
    /\ NoStatCall
    /\ NoConnection

SpecCalRace == InitCalRace /\ [][NextCalRace]_vars

(***************************************************************************)
(* stats.cpp and combat.cpp                                                *)
(*                                                                         *)
(* Doubles are fixed-point integers (value * Scale); a product or quotient *)
(* of two of them is rescaled and rounded down, where the double would be  *)
(* rounded to 53 bits.  Arrays are sequences indexed from 1.               *)
(***************************************************************************)
\* (a * b) \div Scale, computed in two parts so that the intermediate
\* product stays inside TLC's integers
FixMul(a, b) == (a \div Scale) * b + ((a % Scale) * b) \div Scale
FixDiv(a, b) == (a * Scale) \div b
\* a literal of the source, given in thousandths
Lit(thousandths) == (thousandths * Scale) \div 1000

\* stats.cpp lines 101-107, and the tail loops of lines 55-57 and 87-90:
\* the sum of xs[i] for i in from..to
RECURSIVE SumRange(_, _, _)
SumRange(xs, from, to) ==
    IF to < from THEN 0 ELSE SumRange(xs, from, to - 1) + xs[to]

\* stats.cpp lines 38-41: what lane k (1..4) of sum_vec holds after the
\* first `blocks` 4-wide loads
RECURSIVE LaneSum(_, _, _)
LaneSum(xs, k, blocks) ==
    IF blocks = 0 THEN 0
    ELSE LaneSum(xs, k, blocks - 1) + xs[4 * (blocks - 1) + k]

\* stats.cpp lines 33-60
simd_sum_avx2_short_tail(xs, count) ==
    LET blocks == count \div 4
    IN  SumRange(xs, 1, 4 * blocks) + SumRange(xs, 4 * blocks + 2, count)
simd_sum_avx2(xs, count) ==
    LET blocks == count \div 4
        low == <<LaneSum(xs, 1, blocks), LaneSum(xs, 2, blocks)>>
        high == <<LaneSum(xs, 3, blocks), LaneSum(xs, 4, blocks)>>
        sum128 == <<low[1] + high[1], low[2] + high[2]>>
    IN  (sum128[1] + sum128[2]) + SumRange(xs, 4 * blocks + 1, count)

\* stats.cpp lines 101-107
scalar_sum(xs, count) == SumRange(xs, 1, count)

\* stats.cpp lines 122-132 (the arrays of the model are never null)
macac_simd_sum(xs, count) ==
    IF count = 0 THEN 0
    ELSE IF has_avx2 THEN simd_sum_avx2(xs, count)
         ELSE scalar_sum(xs, count)

\* stats.cpp lines 134-140
macac_simd_mean(xs, count) ==
    IF count = 0 THEN 0 ELSE macac_simd_sum(xs, count) \div count

\* (xs[i] - mean)^2 for every i
SquaredDiffs(xs, count, mean) ==
    [i \in 1..count |-> FixMul(xs[i] - mean, xs[i] - mean)]

\* stats.cpp lines 66-93
simd_variance_avx2(xs, count, mean) ==
    simd_sum_avx2(SquaredDiffs(xs, count, mean), count)
        \div (IF count > 1 THEN count - 1 ELSE 1)

\* stats.cpp lines 109-116
scalar_variance(xs, count, mean) ==
    scalar_sum(SquaredDiffs(xs, count, mean), count)
        \div (IF count > 1 THEN count - 1 ELSE 1)

\* stats.cpp lines 142-152
macac_simd_variance(xs, count, mean) ==
    IF count < 2 THEN 0
    ELSE IF has_avx2 THEN simd_variance_avx2(xs, count, mean)
         ELSE scalar_variance(xs, count, mean)

\* the largest r in lo..hi with r * r <= v
RECURSIVE RootBetween(_, _, _)
RootBetween(v, lo, hi) ==
    IF lo >= hi THEN lo
    ELSE LET mid == (lo + hi + 1) \div 2
         IN  IF mid * mid <= v THEN RootBetween(v, mid, hi)
             ELSE RootBetween(v, lo, mid - 1)

\* sqrt of a fixed-point double >= 0
Sqrt(x) == RootBetween(x * Scale, 0, Min(x * Scale, 46340))

\* e^(-x) for 0 <= x < ln 2: the series 1 - x + x^2/2! - ... to its 8th term
RECURSIVE ExpSeries(_, _, _)
ExpSeries(x, k, term) ==
    IF k > 8 \/ term = 0 THEN 0
    ELSE term + ExpSeries(x, k + 1, -((term * x) \div (Scale * k)))

RECURSIVE Halve(_, _)
Halve(x, n) == IF n = 0 \/ x = 0 THEN x ELSE Halve(x \div 2, n - 1)

\* exp(-score) for a score >= 0: e^(-score) = 2^(-n) * e^(-r) with
\* score = n * ln 2 + r
ExpNeg(score) ==
    LET ln2 == Lit(693)
    IN  IF score <= 0 THEN Scale
        ELSE Halve(ExpSeries(score % ln2, 1, Scale), score \div ln2)

\* the smallest score at which the double 1.0 - exp(-score) is exactly 1.0:
\* exp(-score) is then at most 2^-54, half the gap between 1.0 and the
\* double below it, and the subtraction rounds to 1.0; 54 ln 2 = 37.43
SaturationScore == Lit(37430)

\* combat.cpp lines 335, 346, 367: 1.0 - exp(-score).  The fixed-point value
\* is kept on the side of 0 and of 1.0 on which the double lies: 0 only for
\* a score of 0, 1.0 only from SaturationScore on.
Confidence(score) ==
    IF score >= SaturationScore THEN Scale
    ELSE IF score <= 0 THEN 0
    ELSE LET c == Scale - ExpNeg(score)
         IN  IF c < 1 THEN 1 ELSE IF c > Scale - 1 THEN Scale - 1 ELSE c

\* combat.cpp lines 371-375: std::max of the three
BlendOfThree(a, b, c) == (a + b + c) \div 3
Max3(a, b, c) ==
    IF a >= b /\ a >= c THEN a ELSE IF b >= c THEN b ELSE c

\* combat.cpp line 299: count < 5
FloorAtFour(count) == count < 4
BelowFloor(count) == count < 5

\* combat.cpp lines 321-332
AimbotScoreSnapTermOnly(aim_var, avg_aim, avg_snap) ==
    IF avg_snap > Lit(30000) /\ avg_aim < Lit(5000)
    THEN FixMul(FixDiv(avg_snap, Lit(90000)),
                Lit(1000) - FixDiv(avg_aim, Lit(10000)))
    ELSE 0
AimbotScore(aim_var, avg_aim, avg_snap) ==
    (IF aim_var < Lit(1000) /\ avg_aim < Lit(3000)
     THEN FixMul(Lit(1000) - aim_var, Lit(2000)) ELSE 0)
    + (IF avg_snap > Lit(30000) /\ avg_aim < Lit(5000)
       THEN FixMul(FixDiv(avg_snap, Lit(90000)),
                   Lit(1000) - FixDiv(avg_aim, Lit(10000)))
       ELSE 0)

\* combat.cpp lines 337-344
ReachScore(avg_reach) ==
    IF avg_reach > Lit(3500)
    THEN FixMul(avg_reach - Lit(3500), Lit(3000)) ELSE 0

\* combat.cpp line 352
IntervalCv(interval_var, avg_interval) ==
    IF avg_interval > 0 THEN FixDiv(Sqrt(interval_var), avg_interval) ELSE 0

\* combat.cpp lines 348-365
AutoclickerScoreNoFastTerm(interval_var, avg_interval, hit_rate) ==
    LET interval_cv == IntervalCv(interval_var, avg_interval)
    IN  (IF interval_cv < Lit(100)
         THEN FixMul(Lit(100) - interval_cv, Lit(10000)) ELSE 0)
        + (IF hit_rate > Lit(850)
           THEN FixMul(hit_rate - Lit(850), Lit(5000)) ELSE 0)
AutoclickerScore(interval_var, avg_interval, hit_rate) ==
    LET interval_cv == IntervalCv(interval_var, avg_interval)
    IN  (IF interval_cv < Lit(100)
         THEN FixMul(Lit(100) - interval_cv, Lit(10000)) ELSE 0)
        + (IF avg_interval < Lit(50000) /\ avg_interval > 0
           THEN FixDiv(Lit(50000) - avg_interval, Lit(50000)) ELSE 0)
        + (IF hit_rate > Lit(850)
           THEN FixMul(hit_rate - Lit(850), Lit(5000)) ELSE 0)

\* combat.cpp lines 304-375: the struct the call leaves for count >= 5, and
\* its three accumulators
Analysis(aim_errors, snap_angles, reaches, attack_intervals, hits, count) ==
    LET avg_aim == macac_simd_mean(aim_errors, count)
        aim_var == macac_simd_variance(aim_errors, count, avg_aim)
        avg_snap == macac_simd_mean(snap_angles, count)
        avg_reach == macac_simd_mean(reaches, count)
        hit_rate == macac_simd_mean(hits, count)
        avg_interval == macac_simd_mean(attack_intervals, count)
        interval_var ==
            macac_simd_variance(attack_intervals, count, avg_interval)
        aimbot_score == AimbotScore(aim_var, avg_aim, avg_snap)
        reach_score == ReachScore(avg_reach)
        autoclicker_score ==
            AutoclickerScore(interval_var, avg_interval, hit_rate)
        aimbot == Confidence(aimbot_score)
        reach == Confidence(reach_score)
        autoclicker == Confidence(autoclicker_score)
    IN  [aimbot_score |-> aimbot_score,
         reach_score |-> reach_score,
         autoclicker_score |-> autoclicker_score,
         aimbot_confidence |-> aimbot,
         reach_confidence |-> reach,
         autoclicker_confidence |-> autoclicker,
         combined_confidence |-> Max3(aimbot, reach, autoclicker),
         avg_aim_error |-> avg_aim,
         aim_variance |-> aim_var,
         avg_snap_angle |-> avg_snap,
         avg_reach |-> avg_reach,
         hit_rate |-> hit_rate,
         avg_attack_interval |-> avg_interval]

\* combat.cpp lines 295-376; result_null is whether `result` is null
macac_analyze_combat(aim_errors, snap_angles, reaches, attack_intervals, hits, count, result_null) ==
    /\ c_calls < MaxCalls
    /\ IF result_null \/ BelowFloor(count)
       THEN /\ result' = IF result_null THEN result
                         ELSE [f \in ResultFields |-> 0]
            /\ c_reads' = {}
            /\ c_scores' = NoScores
       ELSE \E a \in {Analysis(aim_errors, snap_angles, reaches,
                                attack_intervals, hits, count)} :
                /\ result' = [f \in ResultFields |-> a[f]]
                /\ c_scores' = [aimbot |-> a.aimbot_score,
                                reach |-> a.reach_score,
                                autoclicker |-> a.autoclicker_score]
                /\ c_reads' = InputStreams
    /\ c_in' = [aim_errors |-> aim_errors, snap_angles |-> snap_angles,
                reaches |-> reaches, attack_intervals |-> attack_intervals,
                hits |-> hits]
    /\ c_call' = [count |-> count, result_null |-> result_null]
    /\ c_calls' = c_calls + 1
    /\ UNCHANGED <<has_avx2, combatFrame>>

\* an input array of MaxCount samples: `base`, and `base + swing` at every
\* other index
Samples(base, swing) ==
    [i \in 1..MaxCount |-> IF i % 2 = 0 THEN base + swing ELSE base]

\* steady and exact; unsteady and off
AimErrorInputs == {Samples(Lit(500), 0), Samples(Lit(4000), Lit(2000))}
SnapAngleInputs == {Samples(Lit(10000), 0), Samples(Lit(40000), 0)}
\* within the legitimate 3.5 blocks, and 16 blocks away
ReachInputs == {Samples(Lit(3000), 0), Samples(Lit(16000), 0)}
\* none, every 30 ms, between 100 and 120 ms
IntervalInputs == {Samples(0, 0), Samples(Lit(30000), 0),
                   Samples(Lit(100000), Lit(20000))}
\* all misses, all hits
HitInputs == {Samples(0, 0), Samples(Lit(1000), 0)}

InitCombat ==
    /\ NoBuffer
    /\ ThreadsIdle
    /\ ClockUntouched
    /\ NoStatCall
    /\ NoConnection
    /\ has_avx2 \in BOOLEAN
    /\ result = [f \in ResultFields |-> 1]
    /\ c_call = [count |-> 0, result_null |-> TRUE]
    /\ c_calls = 0
    /\ c_reads = {}
    /\ c_in = NoArrays
    /\ c_scores = NoScores

\* a call with a result struct: every combination of the five streams
AnalyzeIntoResult ==
    \E aim_errors \in AimErrorInputs, snap_angles \in SnapAngleInputs,
       reaches \in ReachInputs, attack_intervals \in IntervalInputs,
       hits \in HitInputs, count \in 0..MaxCount :
        macac_analyze_combat(aim_errors, snap_angles, reaches,
                             attack_intervals, hits, count, FALSE)

\* a call with a null result returns at line 299 before it looks at an
\* array: one choice of arrays stands for all
AnalyzeIntoNull ==
    \E count \in 0..MaxCount :
        macac_analyze_combat(Samples(0, 0), Samples(0, 0), Samples(0, 0),
                             Samples(0, 0), Samples(0, 0), count, TRUE)

NextCombat == AnalyzeIntoResult \/ AnalyzeIntoNull

SpecCombat == InitCombat /\ [][NextCombat]_vars

(***************************************************************************)
(* stats.cpp: selection.  The indices are the source's, counted from 0;    *)
(* element i of an array is xs[i + 1].                                     *)
(***************************************************************************)
\* std::swap(data[i], data[j])
Swap(xs, i, j) == [xs EXCEPT ![i + 1] = xs[j + 1], ![j + 1] = xs[i + 1]]

\* stats.cpp lines 164-169: the loop from index i on
RECURSIVE PartitionLoop(_, _, _, _, _)
PartitionLoop(xs, i, right, store_idx, pivot_val) ==
    IF i >= right THEN [data |-> xs, store_idx |-> store_idx]
    ELSE IF xs[i + 1] < pivot_val
         THEN PartitionLoop(Swap(xs, i, store_idx), i + 1, right,
                            store_idx + 1, pivot_val)
         ELSE PartitionLoop(xs, i + 1, right, store_idx, pivot_val)

\* stats.cpp lines 157-174: the array it leaves and the index it returns
partition(xs, left, right, pivot_idx) ==
    LET pivot_val == xs[pivot_idx + 1]
        loop == PartitionLoop(Swap(xs, pivot_idx, right), left, right, left,
                              pivot_val)
    IN  [data |-> Swap(loop.data, loop.store_idx, right),
         store_idx |-> loop.store_idx]

\* stats.cpp lines 179-195: the value it returns and the array it leaves
RECURSIVE quickselect(_, _, _, _)
quickselect(xs, left, right, k) ==
    IF left < right
    THEN LET p == partition(xs, left, right, left + (right - left) \div 2)
             pivot_idx == p.store_idx
         IN  IF k = pivot_idx THEN [ret |-> p.data[k + 1], data |-> p.data]
             ELSE IF k < pivot_idx
                  THEN quickselect(p.data, left, pivot_idx - 1, k)
                  ELSE quickselect(p.data, pivot_idx + 1, right, k)
    ELSE [ret |-> xs[left + 1], data |-> xs]

\* stats.cpp lines 206-217: the array handed to quickselect is `copy`, not
\* the caller's `data`
SelectsInPlace == "data"
SelectionArray == "copy"

\* stats.cpp line 211: mid = count / 2
MidRoundedUp(count) == (count + 1) \div 2
Mid(count) == count \div 2

\* stats.cpp lines 197-225: the value returned, the caller's array after the
\* call and the heap copy as it was freed (empty if none was made)
macac_median(xs, count) ==
    IF count = 0 THEN [ret |-> 0, data |-> xs, copy |-> <<>>]
    ELSE IF count = 1 THEN [ret |-> xs[1], data |-> xs, copy |-> <<>>]
    ELSE LET mem == [data |-> xs, copy |-> SubSeq(xs, 1, count)]
             mid == Mid(count)
             first == quickselect(mem[SelectionArray], 0, count - 1,
                                  IF count % 2 = 0 THEN mid - 1 ELSE mid)
             second == IF count % 2 = 0
                       THEN quickselect(first.data, 0, count - 1, mid)
                       ELSE first
             after == [mem EXCEPT ![SelectionArray] = second.data]
         IN  [ret |-> IF count % 2 = 0
                      THEN (first.ret + second.ret) \div 2
                      ELSE first.ret,
              data |-> after.data,
              copy |-> after.copy]

\* stats.cpp line 237: std::abs(data[i] - median)
SignedDeviation(x, median) == x - median
Deviation(x, median) == IF x >= median THEN x - median ELSE median - x

\* stats.cpp lines 227-244
macac_mad(xs, count) ==
    IF count = 0 THEN [ret |-> 0, data |-> xs, copy |-> <<>>]
    ELSE LET median == macac_median(xs, count)
             deviations ==
                 [i \in 1..count |-> Deviation(median.data[i], median.ret)]
             mad == macac_median(deviations, count)
         IN  [ret |-> mad.ret, data |-> median.data, copy |-> median.copy]

(***************************************************************************)
(* SpecStats: a caller that holds one array and one count calls            *)
(* macac_median, macac_mad and macac_simd_variance on it.                  *)
(***************************************************************************)
\* longest of the arrays tried with every combination of values
MaxLen == 4
\* longest of the rising arrays, which span two 4-wide blocks and a tail
MaxRamp == 9

\* 1.0, 2.0, 3.0 and the outlier 100.0
StatValues == {Lit(1000), Lit(2000), Lit(3000), Lit(100000)}

\* the arrays 1.0, 2.0, ..., n
Ramp(n) == [i \in 1..n |-> Lit(1000) * i]

RECURSIVE ArraysOfLen(_)
ArraysOfLen(n) ==
    IF n = 0 THEN {<<>>}
    ELSE {Append(xs, v) : xs \in ArraysOfLen(n - 1), v \in StatValues}

StatArrays ==
    UNION {ArraysOfLen(n) : n \in 0..MaxLen}
        \cup {Ramp(n) : n \in (MaxLen + 1)..MaxRamp}

\* the mean handed to macac_simd_variance: the array's own, 0.0 or 2.0
MeanArguments(xs, count) == {macac_simd_mean(xs, count), 0, Lit(2000)}

CallMedian ==
    /\ \E r \in {macac_median(s_data, s_count)} :
        /\ s_ret' = r.ret
        /\ s_data' = r.data
        /\ s_copy' = r.copy
    /\ s_op' = "median"
    /\ UNCHANGED <<s_count, s_mean, statFrame>>

CallMad ==
    /\ \E r \in {macac_mad(s_data, s_count)} :
        /\ s_ret' = r.ret
        /\ s_data' = r.data
        /\ s_copy' = r.copy
    /\ s_op' = "mad"
    /\ UNCHANGED <<s_count, s_mean, statFrame>>

CallVariance(mean) ==
    /\ s_ret' = macac_simd_variance(s_data, s_count, mean)
    /\ s_mean' = mean
    /\ s_op' = "variance"
    /\ UNCHANGED <<s_data, s_count, s_copy, statFrame>>

InitStats ==
    /\ NoBuffer
    /\ ThreadsIdle
    /\ ClockUntouched
    /\ NoConnection
    /\ has_avx2 \in BOOLEAN
    /\ result = [f \in ResultFields |-> 1]
    /\ c_call = [count |-> 0, result_null |-> TRUE]
    /\ c_calls = 0
    /\ c_reads = {}
    /\ c_in = NoArrays
    /\ c_scores = NoScores
    /\ s_data \in StatArrays
    /\ s_count \in 0..Len(s_data)
    /\ s_mean = 0
    /\ s_op = "none"
    /\ s_ret = 0
    /\ s_copy = <<>>
    /\ NoSelection

NextStats ==
    \/ CallMedian
    \/ CallMad
    \/ \E mean \in MeanArguments(s_data, s_count) : CallVariance(mean)

SpecStats == InitStats /\ [][NextStats]_vars

(***************************************************************************)
(* One call of quickselect taken one iteration of its while loop at a      *)
(* time, with the indices as the size_t they are.                          *)
(***************************************************************************)
\* stats.cpp lines 164-169: the indices the loop from index i on reads or
\* writes
RECURSIVE LoopTouches(_, _, _, _, _)
LoopTouches(xs, i, right, store_idx, pivot_val) ==
    IF i >= right THEN {}
    ELSE IF xs[i + 1] < pivot_val
         THEN {i, store_idx} \cup LoopTouches(Swap(xs, i, store_idx), i + 1, right, store_idx + 1, pivot_val)
         ELSE {i} \cup LoopTouches(xs, i + 1, right, store_idx, pivot_val)

\* stats.cpp lines 157-174: every index partition reads or writes
PartitionTouches(xs, left, right, pivot_idx) ==
    {pivot_idx, right, partition(xs, left, right, pivot_idx).store_idx}
        \cup LoopTouches(Swap(xs, pivot_idx, right), left, right, left, xs[pivot_idx + 1])

\* line 182: left + (right - left) / 2 in size_t
PivotChoice(left, right) ==
    (left + (((right - left) % SizeTMod) \div 2)) % SizeTMod

\* line 188: right = pivot_idx - 1 in size_t
RightBelowPivot(pivot_idx) == (pivot_idx - 1) % SizeTMod

\* line 190: left = pivot_idx + 1 in size_t
LeftAtPivot(pivot_idx) == pivot_idx
LeftAbovePivot(pivot_idx) == (pivot_idx + 1) % SizeTMod

\* lines 180-191: one pass through the body of the while
quickselect_iteration ==
    /\ q_pc = "loop"
    /\ q_left < q_right
    /\ \E first \in {PivotChoice(q_left, q_right)} :
       \E p \in {partition(q_data, q_left, q_right, first)} :
        /\ q_data' = p.data
        /\ q_touched' = q_touched \cup PartitionTouches(q_data, q_left, q_right, first)
                                  \cup (IF q_k = p.store_idx THEN {q_k} ELSE {})
        /\ IF q_k = p.store_idx
           THEN /\ q_ret' = p.data[q_k + 1]
                /\ q_pc' = "returned"
                /\ UNCHANGED <<q_left, q_right, q_kept>>
           ELSE IF q_k < p.store_idx
                THEN /\ q_right' = RightBelowPivot(p.store_idx)
                     /\ q_kept' = "left"
                     /\ UNCHANGED <<q_left, q_ret, q_pc>>
                ELSE /\ q_left' = LeftAbovePivot(p.store_idx)
                     /\ q_kept' = "right"
                     /\ UNCHANGED <<q_right, q_ret, q_pc>>
    /\ UNCHANGED <<q_k, q_in, selFrame>>

\* lines 180 and 194: the while ends and data[left] is returned
quickselect_return ==
    /\ q_pc = "loop"
    /\ ~(q_left < q_right)
    /\ q_ret' = q_data[q_left + 1]
    /\ q_touched' = q_touched \cup {q_left}
    /\ q_pc' = "returned"
    /\ UNCHANGED <<q_data, q_left, q_right, q_k, q_in, q_kept, selFrame>>

\* the arrays handed to quickselect: every array of 1 to MaxLen values
SelectArrays == UNION {ArraysOfLen(n) : n \in 1..MaxLen}

\* a call with left <= k <= right inside the array
InitSelect ==
    /\ NoBuffer
    /\ ThreadsIdle
    /\ ClockUntouched
    /\ NoAnalysisYet
    /\ NoConnection
    /\ s_data = <<>>
    /\ s_count = 0
    /\ s_mean = 0
    /\ s_op = "none"
    /\ s_ret = 0
    /\ s_copy = <<>>
    /\ q_pc = "loop"
    /\ q_data \in SelectArrays
    /\ q_right \in 0..(Len(q_data) - 1)
    /\ q_left \in 0..q_right
    /\ q_k \in q_left..q_right
    /\ q_in = <<q_left, q_right>>
    /\ q_ret = 0
    /\ q_kept = "none"
    /\ q_touched = {}

NextSelect == quickselect_iteration \/ quickselect_return

\* the calling thread keeps running until the call returns
SpecSelect == InitSelect /\ [][NextSelect]_vars /\ WF_vars(NextSelect)

(***************************************************************************)
(* network.cpp: one owner thread holds at most one connection handle and   *)
(* makes whole calls.  The socket and the peer are the environment: each   *)
(* system call has one of the outcomes the kernel can give.                *)
(***************************************************************************)
\* line 29: char send_buffer[4096]
SendBufferSize == 4096
\* line 182: char json_buffer[1024]
JsonBufferSize == 1024
\* the descriptor socket() returns
SocketFd == 3

\* what format_violation_json returns: an snprintf error, a short and a
\* long message, a message that did not fit json_buffer, and a message
\* that is the 96 bytes left of send_buffer after four long ones
JsonLengths == {-1, 96, 200, 1000, JsonBufferSize}
\* send(): all bytes taken, some taken, EAGAIN/EWOULDBLOCK, any other errno
SendOutcomes == {"sent", "partial", "would_block", "error"}
\* poll(): writable, poll itself failed, POLLERR or POLLHUP reported
PollOutcomes == {"writable", "failed", "hangup"}
\* socket(), host resolution and connect(): all succeed, or one fails
ConnectOutcomes == {"ok", "no_socket", "unresolved", "refused"}
Ports == {0, 8080, 65536}

\* lines 173, 228: if (!conn || !conn->connected || conn->sockfd < 0)
NotUsable == conn = "null" \/ ~connected \/ sockfd < 0

\* line 206: conn->connected = false
StaysConnectedAfterError == TRUE
ConnectedAfterError == FALSE

\* lines 105-165; the owner has no handle when it connects
macac_net_connect(host_null, port, outcome) ==
    /\ conn = "null"
    /\ IF host_null \/ port <= 0 \/ port > 65535 \/ outcome # "ok"
       THEN /\ n_ret' = 0
            /\ UNCHANGED <<conn, connected, sockfd, send_buffer_len>>
       ELSE /\ conn' = "live"
            /\ connected' = TRUE
            /\ sockfd' = SocketFd
            /\ send_buffer_len' = 0
            /\ n_ret' = 1
    /\ n_op' = <<"connect", port>>
    /\ n_sends' = 0
    /\ n_failed' = FALSE
    /\ n_outcome' = "none"
    /\ n_copy' = <<0, 0>>
    /\ UNCHANGED netFrame

\* line 197: if (conn->send_buffer_len + json_len < sizeof(conn->send_buffer))
FitsWithLastByte(pending, json_len) == pending + json_len <= SendBufferSize
FitsPending(pending, json_len) == pending + json_len < SendBufferSize

\* lines 167-211
macac_net_send_violation(ids_null, json_len, outcome) ==
    /\ IF NotUsable \/ ids_null \/ json_len < 0 \/ json_len >= JsonBufferSize
       THEN /\ n_ret' = -1
            /\ n_sends' = 0
            /\ n_outcome' = "none"
            /\ n_copy' = <<0, 0>>
            /\ UNCHANGED <<connected, send_buffer_len, n_failed>>
       ELSE /\ n_sends' = 1
            /\ n_outcome' = outcome
            /\ IF outcome = "sent"
               THEN /\ n_ret' = json_len
                    /\ n_copy' = <<0, 0>>
                    /\ UNCHANGED <<connected, send_buffer_len, n_failed>>
               ELSE IF outcome = "partial"
               THEN /\ n_ret' = json_len \div 2
                    /\ n_copy' = <<0, 0>>
                    /\ UNCHANGED <<connected, send_buffer_len, n_failed>>
               ELSE IF outcome = "would_block"
               THEN /\ IF FitsPending(send_buffer_len, json_len)
                       THEN /\ n_copy' = <<send_buffer_len, json_len>>
                            /\ send_buffer_len' = send_buffer_len + json_len
                            /\ n_ret' = 0
                       ELSE /\ n_ret' = -1
                            /\ n_copy' = <<0, 0>>
                            /\ UNCHANGED send_buffer_len
                    /\ UNCHANGED <<connected, n_failed>>
               ELSE /\ connected' = ConnectedAfterError
                    /\ n_failed' = TRUE
                    /\ n_ret' = -1
                    /\ n_copy' = <<0, 0>>
                    /\ UNCHANGED send_buffer_len
    /\ n_op' = <<"send", json_len>>
    /\ UNCHANGED <<conn, sockfd, netFrame>>

\* lines 213-225; delete frees the struct and the owner drops its handle
macac_net_close ==
    /\ IF conn = "null"
       THEN UNCHANGED <<conn, connected, sockfd, send_buffer_len>>
       ELSE /\ conn' = "null"
            /\ connected' = FALSE
            /\ sockfd' = -1
            /\ send_buffer_len' = 0
    /\ n_op' = <<"close", 0>>
    /\ n_ret' = 0
    /\ n_sends' = 0
    /\ n_failed' = FALSE
    /\ n_outcome' = "none"
    /\ n_copy' = <<0, 0>>
    /\ UNCHANGED netFrame

\* lines 227-249
macac_net_is_connected(outcome) ==
    /\ IF NotUsable
       THEN /\ n_ret' = 0
            /\ UNCHANGED connected
       ELSE IF outcome = "writable"
       THEN /\ n_ret' = 1
            /\ UNCHANGED connected
       ELSE /\ connected' = FALSE
            /\ n_ret' = 0
    /\ n_op' = <<"is_connected", 0>>
    /\ n_sends' = 0
    /\ n_outcome' = "none"
    /\ n_copy' = <<0, 0>>
    /\ UNCHANGED <<conn, sockfd, send_buffer_len, n_failed, netFrame>>

InitNet ==
    /\ NoBuffer
    /\ ThreadsIdle
    /\ ClockUntouched
    /\ NoAnalysisYet
    /\ NoStatCall
    /\ NoConnection

NextNet ==
    \/ \E host_null \in BOOLEAN, port \in Ports,
          outcome \in ConnectOutcomes :
           macac_net_connect(host_null, port, outcome)
    \/ \E ids_null \in BOOLEAN, json_len \in JsonLengths,
          outcome \in SendOutcomes :
           macac_net_send_violation(ids_null, json_len, outcome)
    \/ macac_net_close
    \/ \E outcome \in PollOutcomes : macac_net_is_connected(outcome)

SpecNet == InitNet /\ [][NextNet]_vars

(***************************************************************************)
(* Properties of one thread's calls (Spec).                                *)
(***************************************************************************)

\* C1: after k pushes by one thread into a buffer of capacity C, size() is
\* min(k, C), get(a) for a < min(k, C) is the (a+1)-th most recently pushed
\* value, and get(min(k, C)) is NotAvailable.
C1_PushesKeepLastCapacityValues ==
    rb = "live" =>
        LET k == Len(hist)
            n == Min(k, capacity)
        IN  /\ SizeResult = n
            /\ \A a \in 0..(n - 1) : GetResult(a) = hist[k - a]
            /\ GetResult(n) = NaN

\* more pushes than capacity, distinct values in the window, and the oldest
\* kept value read back
C1_Witness ==
    /\ rb = "live"
    /\ capacity = 3
    /\ hist = <<0, 1, 2, 0>>
    /\ op = <<"get", 2>>
    /\ ret = 1

\* C5: every read of an age >= size, through get or through the bridge's
\* ringBufferGet (null handle included), returns NaN, never 0.0 or a stored
\* value, and changes nothing of the buffer.
C5_NotAvailableIsNaN ==
    [][(/\ op'[1] \in {"get", "ringBufferGet"}
        /\ SizeTOfJint(op'[2]) >= SizeResult)
       => (ret' = NaN /\ UNCHANGED rbVars)]_vars

\* C7: create(0) returns no buffer and allocates nothing, no live buffer has
\* capacity 0, and on the null handle push changes nothing, size is 0 and
\* get is NotAvailable.
C7_ZeroCapacityRejected ==
    [][/\ (op' = <<"create", 0>> =>
               ret' = 0 /\ rb' = "null" /\ allocs' = 0)
       /\ (rb' = "live" => capacity' >= 1)
       /\ (rb = "null" /\ op'[1] = "push" => UNCHANGED rbVars)
       /\ (rb = "null" /\ op'[1] = "size" => ret' = 0)
       /\ (rb = "null" /\ op'[1] = "get" => ret' = NaN)]_vars

\* create(0) has just failed
C7_Witness ==
    /\ op = <<"create", 0>>
    /\ rb = "null"
    /\ ret = 0
    /\ allocs = 0

\* the data, cursor and size of a buffer that macac_ringbuffer_create(cap)
\* made and that then took the given pushes, one after the other
PushedOnto(b, cap, value) ==
    [data |-> [b.data EXCEPT ![b.head] = value],
     head |-> (b.head + 1) % cap,
     size |-> IF b.size < cap THEN b.size + 1 ELSE b.size]

RECURSIVE PushedOnNew(_, _)
PushedOnNew(cap, pushes) ==
    IF pushes = <<>>
    THEN [data |-> [i \in 0..(cap - 1) |-> 0], head |-> 0, size |-> 0]
    ELSE PushedOnto(PushedOnNew(cap, SubSeq(pushes, 1, Len(pushes) - 1)),
                    cap, pushes[Len(pushes)])

\* the buffer is what a new buffer of its capacity is after the pushes made
\* since the clear, and answers size and get as that one: size is
\* min(k, capacity), get returns the pushes since the clear, newest first,
\* and NaN for every other age
LikeNewSinceClear ==
    LET k == Len(hist)
        n == Min(k, capacity)
    IN  /\ rb = "live"
        /\ [data |-> data, head |-> head, size |-> size]
               = PushedOnNew(capacity, hist)
        /\ SizeResult = n
        /\ \A a \in Ages : GetResult(a) = IF a < n THEN hist[k - a] ELSE NaN

\* C20: with one thread, clear leaves the buffer in the state create left
\* it in, with the capacity it had: size is 0 and get is NaN for every age,
\* and after k pushes since the clear the buffer is in the state of, and
\* answers as, a new buffer of that capacity after the same k pushes.
C20_ClearResets ==
    /\ [](since = "clear" => LikeNewSinceClear)
    /\ [][/\ (op'[1] = "clear" /\ rb = "live") =>
                 /\ since' = "clear"
                 /\ hist' = <<>>
                 /\ capacity' = capacity
                 /\ allocs' = allocs
          /\ (since = "clear" /\ since' = "clear") => capacity' = capacity]_vars

\* after a clear, more pushes than the capacity and the value before the
\* newest read back
C20_Witness ==
    /\ since = "clear"
    /\ capacity = 2
    /\ hist = <<1, 2, 0>>
    /\ op = <<"get", 1>>
    /\ ret = 2

(***************************************************************************)
(* Properties of the writer and the reader running together.               *)
(***************************************************************************)

\* C2 (SpecConc): a reader that took size() once, obtaining s, and reads the
\* ages 0..s-1 while the one writer pushes never gets NotAvailable.
C2_SnapshotAgesAvailable ==
    (r_pc = "get_returned" /\ r_age < r_snap) => r_ret # NaN

\* the last age of a snapshot was read while the writer was inside a push
\* that had already made the size grow past the snapshot
C2_Witness ==
    /\ r_pc = "get_returned"
    /\ r_snap >= 1
    /\ r_age = r_snap - 1
    /\ r_size > r_snap
    /\ w_pc # "idle"
    /\ r_ret # NaN

\* C3 (SpecConc): a get(age) that passed the size check returns the value that
\* was the age-th most recent among the pushes whose cursor advance was
\* complete when get read the cursor, never a slot stored into since.
C3_GetReturnsExposedValue ==
    r_pc = "get_returned" => r_ret = r_expect

\* C6 (SpecConcClear): at every step of push and clear, 0 <= size <= capacity
\* and 0 <= head < capacity.
C6_SizeAndCursorInRange ==
    rb = "live" =>
        /\ 0 <= size /\ size <= capacity
        /\ 0 <= head /\ head < capacity

\* inside the push that wrapped the cursor, before its size update
C6_Witness ==
    /\ capacity = 2
    /\ w_pc = "push_load_size"
    /\ head = 0
    /\ size = 1

\* C21 (SpecClearRace): a get(age) that runs while the writer is inside
\* clear returns NaN or the value that stood at that age when the get
\* started, a value pushed before the clear; never the zero fill and never
\* the value of another age.
C21_GetBesideClear ==
    r_pc = "get_returned" => r_ret \in {NaN, r_stood}

(***************************************************************************)
(* Properties of the clock (SpecTiming).                                   *)
(***************************************************************************)

\* C4: of two macac_nanotime calls, the later one returns at least what the
\* earlier one returned, whatever was called between them.
C4_NanotimeMonotonic ==
    nt_prev # -1 => nt_last >= nt_prev

\* C8: the first macac_calibrate_tsc sets the calibrated flag and returns the
\* factor it fixed; a later call returns that factor, takes no sample, lets
\* no time pass and changes nothing; no call ever changes a fixed factor.
C8_CalibrateIdempotent ==
    [][/\ (t_op'[1] = "calibrate" =>
               tsc_calibrated' /\ t_ret' = tsc_nanos_per_tick')
       /\ (t_op'[1] = "calibrate" /\ tsc_calibrated =>
               UNCHANGED <<calVars, clkVars>>)
       /\ (tsc_calibrated =>
               tsc_calibrated' /\ tsc_nanos_per_tick' = tsc_nanos_per_tick)
      ]_vars

\* a second calibration call returned the factor the first had measured
C8_Witness ==
    /\ t_op[1] = "calibrate"
    /\ has_rdtscp
    /\ tsc_calibrated
    /\ measured = SAMPLES
    /\ nt_last # -1
    /\ t_ret = tsc_nanos_per_tick
    /\ tsc_nanos_per_tick > 0

\* C9: macac_tsc_to_nanos leaves the state calibrated and returns its
\* argument times the calibrated factor, which is not the initial 0.0; when
\* already calibrated it changes nothing.
C9_TscToNanosCalibratesFirst ==
    [][t_op'[1] = "tsc_to_nanos" =>
          /\ tsc_calibrated'
          /\ tsc_nanos_per_tick' > 0
          /\ t_ret' = TicksToNanos(t_op'[2], tsc_nanos_per_tick')
          /\ (tsc_calibrated => UNCHANGED <<calVars, clkVars>>)
      ]_vars

\* the conversion ran the calibration itself and used its factor
C9_Witness ==
    /\ t_op = <<"tsc_to_nanos", TscEpoch>>
    /\ has_rdtscp
    /\ measured = SAMPLES
    /\ nt_last = -1
    /\ tsc_calibrated
    /\ t_ret > 0
    /\ t_ret = TicksToNanos(TscEpoch, tsc_nanos_per_tick)

\* C22 (SpecCalRace): with several threads calling timing.cpp from the
\* uninitialized state, the factor is assigned at most once, a factor a
\* thread read after it saw tsc_calibrated true is the factor still in
\* place, and all the calls that return or use a factor have the same one.
C22_SingleAssignment ==
    /\ Len(k_assigned) <= 1
    /\ \A t \in Threads : k_seen[t] # -1 => k_seen[t] = tsc_nanos_per_tick
    /\ \A t, u \in Threads :
        k_factor[t] # -1 /\ k_factor[u] # -1 => k_factor[t] = k_factor[u]

(***************************************************************************)
(* Properties of the scoring model (SpecCombat).                           *)
(***************************************************************************)

\* C10: after a call with count < 5 and a non-null result, every field of
\* the result is 0 whatever the inputs were, and no input array was read.
C10_PolicyFloor ==
    (c_call.count < 5 /\ ~c_call.result_null) =>
        /\ \A f \in ResultFields : result[f] = 0
        /\ c_reads = {}

\* a call with count = 4 zeroed a result struct that held no zero
C10_Witness ==
    /\ c_calls >= 1
    /\ c_call = [count |-> 4, result_null |-> FALSE]
    /\ result = [f \in ResultFields |-> 0]
    /\ c_reads = {}

\* the four confidences of the result struct
ConfidenceFields == {"aimbot_confidence", "reach_confidence",
                     "autoclicker_confidence", "combined_confidence"}

\* the last call had a result struct and at least the 5 samples of the floor
Analysed == c_calls >= 1 /\ ~c_call.result_null /\ c_call.count >= 5

\* every one of the first n samples of the stream equals v
AllSamples(stream, n, v) == \A i \in 1..n : c_in[stream][i] = v

\* C11: in every result a call wrote, combined_confidence is at least each
\* of aimbot_confidence, reach_confidence and autoclicker_confidence and
\* equal to one of them.
C11_CombinedIsMax ==
    (c_calls >= 1 /\ ~c_call.result_null) =>
        LET three == {result.aimbot_confidence, result.reach_confidence,
                      result.autoclicker_confidence}
        IN  /\ \A c \in three : result.combined_confidence >= c
            /\ result.combined_confidence \in three

\* a call left three different confidences above 0, so that their maximum
\* differs from their sum and from their mean
C11_Witness ==
    /\ Analysed
    /\ result.aimbot_confidence > 0
    /\ result.autoclicker_confidence > result.aimbot_confidence
    /\ result.reach_confidence > result.autoclicker_confidence
    /\ result.combined_confidence = result.reach_confidence

\* C12: after a call with count >= 5 each of the three accumulators is >= 0
\* and each of the four confidences is >= 0 and below 1.
C12_ConfidenceInRange ==
    Analysed =>
        /\ \A s \in ScoreNames : c_scores[s] >= 0
        /\ \A f \in ConfidenceFields : result[f] >= 0 /\ result[f] < Scale

\* C13: scoring scenario A, n = 10 with every aim error 0.5, every snap
\* angle 40, reaches within 3.5, no hits and attack intervals 0:
\* aimbot_confidence is above 0, combined_confidence equals it, and the
\* aimbot accumulator is the largest of the three.
ScenarioA ==
    /\ c_calls >= 1
    /\ c_call = [count |-> 10, result_null |-> FALSE]
    /\ AllSamples("aim_errors", 10, Lit(500))
    /\ AllSamples("snap_angles", 10, Lit(40000))
    /\ \A i \in 1..10 : c_in.reaches[i] <= Lit(3500)
    /\ AllSamples("hits", 10, 0)
    /\ AllSamples("attack_intervals", 10, 0)

C13_ScenarioA ==
    ScenarioA =>
        /\ result.aimbot_confidence > 0
        /\ result.combined_confidence = result.aimbot_confidence
        /\ c_scores.aimbot > c_scores.reach
        /\ c_scores.aimbot > c_scores.autoclicker

\* scenario A was analysed; the other two accumulators are 0 for the reach
\* and 1.0 for the attack intervals, whose mean of 0 makes cv 0
C13_Witness ==
    /\ ScenarioA
    /\ c_scores.reach = 0
    /\ c_scores.autoclicker = Lit(1000)
    /\ c_scores.aimbot > Lit(2000)

\* the sum of (x - mean)^2 over the first n elements, divided by n - 1
RECURSIVE SquareSum(_, _, _)
SquareSum(xs, n, mean) ==
    IF n = 0 THEN 0
    ELSE LET d == IF xs[n] >= mean THEN xs[n] - mean ELSE mean - xs[n]
         IN  SquareSum(xs, n - 1, mean)
             + (d \div Scale) * d + ((d % Scale) * d) \div Scale
SampleVariance(xs, n, mean) == SquareSum(xs, n, mean) \div (n - 1)

\* C14: after a call with count >= 5 the autoclicker accumulator is the sum
\* of (0.1 - cv) * 10 when cv < 0.1, (50 - avg_interval) / 50 when
\* 0 < avg_interval < 50 and (hit_rate - 0.85) * 5 when hit_rate > 0.85,
\* with cv = sqrt(interval_variance) / avg_interval, or 0 when
\* avg_interval <= 0; and constant 30 ms intervals with every attack a hit
\* give an autoclicker_confidence above 0.5.
C14_AutoclickerRule ==
    Analysed =>
        LET avg == result.avg_attack_interval
            rate == result.hit_rate
            variance ==
                SampleVariance(c_in.attack_intervals, c_call.count, avg)
            cv == IF avg <= 0 THEN 0 ELSE (Sqrt(variance) * Scale) \div avg
            regular == IF cv < Lit(100)
                       THEN ((Lit(100) - cv) * Lit(10000)) \div Scale
                       ELSE 0
            fast == IF 0 < avg /\ avg < Lit(50000)
                    THEN ((Lit(50000) - avg) * Scale) \div Lit(50000)
                    ELSE 0
            accurate == IF rate > Lit(850)
                        THEN ((rate - Lit(850)) * Lit(5000)) \div Scale
                        ELSE 0
        IN  /\ c_scores.autoclicker = regular + fast + accurate
            /\ (/\ AllSamples("attack_intervals", c_call.count, Lit(30000))
                /\ AllSamples("hits", c_call.count, Lit(1000)))
               => result.autoclicker_confidence > Lit(500)

\* scoring scenario C was analysed: all three terms fired, 1.0 + 0.4 + 0.75
C14_Witness ==
    /\ Analysed
    /\ AllSamples("attack_intervals", c_call.count, Lit(30000))
    /\ AllSamples("hits", c_call.count, Lit(1000))
    /\ c_scores.autoclicker = Lit(2150)
    /\ result.autoclicker_confidence > Lit(500)

(***************************************************************************)
(* Properties of the statistics (SpecStats).                               *)
(***************************************************************************)

\* the value of rank k (from 0) among the first n elements in sorted order:
\* fewer than k + 1 elements lie below it and at least k + 1 lie at or
\* below it, whatever the order of the elements
OrderStatistic(xs, n, k) ==
    CHOOSE v \in {xs[i] : i \in 1..n} :
        /\ Cardinality({i \in 1..n : xs[i] < v}) <= k
        /\ Cardinality({i \in 1..n : xs[i] <= v}) > k

ExactMedian(xs, n) ==
    IF n = 0 THEN 0
    ELSE IF n % 2 = 1 THEN OrderStatistic(xs, n, n \div 2)
    ELSE (OrderStatistic(xs, n, n \div 2 - 1)
          + OrderStatistic(xs, n, n \div 2)) \div 2

\* C15: macac_median returns the exact median of the first count elements:
\* the order statistic of rank n/2 for odd n, the average of the two central
\* order statistics for even n, the element for n = 1 and 0 for n = 0; the
\* order statistics depend on the multiset of values only, so the result is
\* the same for every permutation; median([1,2,3,4]) = 2.5, median([5]) is
\* the element.
C15_MedianExact ==
    s_op = "median" =>
        /\ s_ret = ExactMedian(s_data, s_count)
        /\ s_count = 1 => s_ret = s_data[1]
        /\ s_count = 0 => s_ret = 0
        /\ (s_count = 4 /\ s_data = Ramp(4)) => s_ret = Lit(2500)

\* an unsorted array of even length with a repeated value: the first
\* selection reordered the copy and the second ran on the reordered copy
C15_Witness ==
    /\ s_op = "median"
    /\ s_data = <<Lit(3000), Lit(1000), Lit(2000), Lit(1000)>>
    /\ s_count = 4
    /\ s_copy # s_data
    /\ s_ret = Lit(1500)

C17_VarianceBessel ==
    s_op = "variance" =>
        /\ s_ret = IF s_count < 2 THEN 0
                   ELSE SampleVariance(s_data, s_count, s_mean)
        /\ (s_data = Ramp(3) /\ s_count = 3 /\ s_mean = Lit(2000))
           => s_ret = Lit(1000)

\* the AVX2 build summed one block of four and a tail of three: the squared
\* differences 9, 4, 1, 0, 1, 4, 9 from the mean 4, divided by 6
C17_Witness ==
    /\ s_op = "variance"
    /\ has_avx2
    /\ s_data = Ramp(7)
    /\ s_count = 7
    /\ s_mean = Lit(4000)
    /\ s_ret = Lit(28000) \div 6

\* C18: macac_mad returns the median of |x - median(xs)| over the first
\* count elements, and 0 for an empty input; for [1,1,1,100] it returns 0.
C18_MadIsMedianOfDeviations ==
    s_op = "mad" =>
        LET median == ExactMedian(s_data, s_count)
            deviations ==
                [i \in 1..s_count |->
                    IF s_data[i] >= median THEN s_data[i] - median
                    ELSE median - s_data[i]]
        IN  /\ s_ret = ExactMedian(deviations, s_count)
            /\ s_count = 0 => s_ret = 0
            /\ (/\ s_count = 4
                /\ s_data = <<Lit(1000), Lit(1000), Lit(1000), Lit(100000)>>)
               => s_ret = 0

\* the example of the outlier, and an array whose deviations are not all 0
C18_Witness ==
    /\ s_op = "mad"
    /\ s_count = 4
    /\ \/ /\ s_data = <<Lit(1000), Lit(1000), Lit(1000), Lit(100000)>>
          /\ s_ret = 0
       \/ /\ s_data = <<Lit(3000), Lit(1000), Lit(100000), Lit(2000)>>
          /\ s_ret = Lit(1000)

\* C23 (SpecSelect): quickselect called with left <= k <= right returns,
\* whatever the array (arrays of equal elements included); at every test of
\* the while left <= k <= right holds inside the range of the call, so
\* right = pivot_idx - 1 never wraps below 0; and no index that quickselect
\* or partition reads or writes lies outside that range.
C23_QuickselectTerminatesInRange ==
    /\ [](/\ q_pc = "loop" => /\ q_in[1] <= q_left
                              /\ q_left <= q_k
                              /\ q_k <= q_right
                              /\ q_right <= q_in[2]
          /\ q_touched \subseteq q_in[1]..q_in[2])
    /\ <>(q_pc = "returned")

\* a call on [1.0, 2.0, 2.0, 2.0] for k = 0 has returned 1.0 after an
\* iteration that set right = pivot_idx - 1 with pivot_idx = 1
C23_Witness ==
    /\ q_pc = "returned"
    /\ q_data = <<Lit(1000), Lit(2000), Lit(2000), Lit(2000)>>
    /\ q_in = <<0, 3>>
    /\ q_k = 0
    /\ q_right = 0
    /\ q_kept = "left"
    /\ q_ret = Lit(1000)

(***************************************************************************)
(* Properties of the reporting path (SpecNet).                             *)
(***************************************************************************)

\* C19: a call of macac_net_send_violation calls send() at most once; on a
\* null, disconnected or closed connection it returns -1 and calls send()
\* not at all; a send that fails with an error other than would-block
\* leaves the connection disconnected; and after such a failure the
\* connection is never connected again, so that every later send on it
\* returns -1.
C19_NoRetryAndStaysDown ==
    [][/\ n_sends' <= 1
       /\ (n_op'[1] = "send" /\ NotUsable) => (n_ret' = -1 /\ n_sends' = 0)
       /\ (n_failed' /\ ~n_failed) => ~connected'
       /\ n_failed => ((n_failed' => ~connected')
                       /\ (n_op'[1] = "send" => n_ret' = -1))]_vars

\* on a connection whose earlier send failed hard, a later send of a
\* well-formed message returned -1 without a send()
C19_Witness ==
    /\ conn = "live"
    /\ n_failed
    /\ ~connected
    /\ n_op = <<"send", 200>>
    /\ n_sends = 0
    /\ n_ret = -1

\* C24 (SpecNet): when the send() of macac_net_send_violation would block,
\* the whole message is copied to the end of the pending bytes, the pending
\* length grows by the message length and 0 is returned if pending length +
\* message length < 4096; otherwise -1 is returned, nothing is copied and
\* the pending length is unchanged; either way the connection stays
\* connected; and the pending length is never above 4095.
C24_WouldBlockPath ==
    /\ [](send_buffer_len <= 4095)
    /\ [][(n_op'[1] = "send" /\ n_outcome' = "would_block") =>
            /\ connected /\ connected'
            /\ IF send_buffer_len + n_op'[2] < 4096
               THEN /\ n_ret' = 0
                    /\ n_copy' = <<send_buffer_len, n_op'[2]>>
                    /\ send_buffer_len' = send_buffer_len + n_op'[2]
               ELSE /\ n_ret' = -1
                    /\ n_copy' = <<0, 0>>
                    /\ send_buffer_len' = send_buffer_len]_vars

\* with 4000 bytes pending, a 96-byte message whose send() would block was
\* refused: 4000 + 96 is not below 4096
C24_Witness ==
    /\ connected
    /\ n_op = <<"send", 96>>
    /\ n_outcome = "would_block"
    /\ n_ret = -1
    /\ send_buffer_len = 4000

=============================================================================
